---- MODULE Spec2Model ----
(***************************************************************************)
(* A model of app/process_pdfs.py: the text normaliser (clean_text), the   *)
(* title resolver (extract_title), the heading heuristics                  *)
(* (is_likely_heading, classify_heading_level), the outline builder        *)
(* (extract_outline) and the batch driver (process_pdfs).                  *)
(*                                                                         *)
(* Python strings are TLA+ strings; a character is a string of length 1.   *)
(* An optional value (None or a string) is a sequence of length 0 or 1.    *)
(***************************************************************************)
EXTENDS Integers, Sequences, FiniteSets, TLC

VARIABLES
    input,      \* the input directory: stem of each *.pdf |-> its content
    files,      \* the order in which input_dir.glob("*.pdf") yields the stems
    idx,        \* number of files the for loop of process_pdfs has finished
    pc,         \* position of the control flow inside process_pdfs / extract_outline
    meta_read,  \* what the metadata reader returned for the current file
    title,      \* outline["title"] of the current extract_outline call
    outline,    \* outline["outline"] of the current extract_outline call
    page_num,   \* page_num of the enumerate(pdf.pages, 0) loop
    lines,      \* lines of the page being scanned
    i,          \* i of the enumerate(lines) loop
    log,        \* the messages logged at level INFO or above while handling the current file
    outputs,    \* the output directory: stem |-> content of <stem>.json
    fn_arg,     \* argument of the pure function under test (SpecClean, SpecClassify)
    fn_font,    \* font_size argument of classify_heading_level under test
    fn_res,     \* result of the first application
    fn_res2,    \* result of applying clean_text to the first result
    fn_pc       \* number of applications made

vars == <<input, files, idx, pc, meta_read, title, outline, page_num, lines, i,
          log, outputs, fn_arg, fn_font, fn_res, fn_res2, fn_pc>>

mainVars == <<input, files, idx, pc, meta_read, title, outline, page_num, lines, i,
              log, outputs>>

fnVars == <<fn_arg, fn_font, fn_res, fn_res2, fn_pc>>

----------------------------------------------------------------------------
(* Characters and the str methods the program calls.                       *)

Ch(s, k) == SubSeq(s, k, k)

CharsOf(s) == {Ch(s, k) : k \in 1..Len(s)}

DigitChars == CharsOf("0123456789")

UpperLetters == "ABCDEFGHIJKLMNOPQRSTUVWXYZ"

LowerLetters == "abcdefghijklmnopqrstuvwxyz"

UpperChars == CharsOf(UpperLetters)

LowerChars == CharsOf(LowerLetters)

\* \s of the re module, and what str.strip() removes
SpaceChars == {" ", "\t", "\n"}

\* \w of the re module
WordChars == DigitChars \cup UpperChars \cup LowerChars \cup {"_"}

AllIn(s, from, to, set) == \A k \in from..to : Ch(s, k) \in set

SetMin(S) == CHOOSE x \in S : \A y \in S : x <= y

SetMax(S) == CHOOSE x \in S : \A y \in S : x >= y

LowerChar(c) ==
    IF c \in UpperChars
    THEN Ch(LowerLetters, CHOOSE k \in 1..Len(UpperLetters) : Ch(UpperLetters, k) = c)
    ELSE c

UpperChar(c) ==
    IF c \in LowerChars
    THEN Ch(UpperLetters, CHOOSE k \in 1..Len(LowerLetters) : Ch(LowerLetters, k) = c)
    ELSE c

RECURSIVE lower(_)
\* str.lower()
lower(s) == IF s = "" THEN "" ELSE LowerChar(Head(s)) \o lower(Tail(s))

\* the `in` operator on strings: sub in s
Contains(s, sub) ==
    \E k \in 1..(Len(s) - Len(sub) + 1) : SubSeq(s, k, k + Len(sub) - 1) = sub

\* str.strip()
strip(s) ==
    LET keep == {k \in 1..Len(s) : Ch(s, k) \notin SpaceChars}
    IN  IF keep = {} THEN "" ELSE SubSeq(s, SetMin(keep), SetMax(keep))

\* str.endswith(suffix)
endswith(s, suffix) ==
    /\ Len(s) >= Len(suffix)
    /\ SubSeq(s, Len(s) - Len(suffix) + 1, Len(s)) = suffix

\* str.istitle(): there is a cased character, uppercase characters follow only
\* uncased ones and lowercase characters follow only cased ones
istitle(s) ==
    LET Cased(k) == k >= 1 /\ Ch(s, k) \in UpperChars \cup LowerChars
    IN  /\ \E k \in 1..Len(s) : Cased(k)
        /\ \A k \in 1..Len(s) :
              /\ Ch(s, k) \in UpperChars => ~Cased(k - 1)
              /\ Ch(s, k) \in LowerChars => Cased(k - 1)

\* str.isupper(): there is a cased character and no lowercase one
isupper(s) ==
    /\ \E k \in 1..Len(s) : Ch(s, k) \in UpperChars
    /\ \A k \in 1..Len(s) : Ch(s, k) \notin LowerChars

RECURSIVE replace(_, _, _)
\* str.replace(old, new) for a one-character old
replace(s, old, new) ==
    IF s = "" THEN ""
    ELSE (IF Head(s) = old THEN new ELSE Head(s)) \o replace(Tail(s), old, new)

RECURSIVE TitleFrom(_, _)
TitleFrom(s, k) ==
    IF k > Len(s) THEN ""
    ELSE LET prevCased == k > 1 /\ Ch(s, k - 1) \in UpperChars \cup LowerChars
         IN  (IF prevCased THEN LowerChar(Ch(s, k)) ELSE UpperChar(Ch(s, k)))
             \o TitleFrom(s, k + 1)

\* str.title(): a letter after an uncased character is made uppercase, the others lowercase
titlecase(s) == TitleFrom(s, 1)

RECURSIVE SplitFrom(_, _, _)
SplitFrom(s, start, k) ==
    IF k > Len(s) THEN <<SubSeq(s, start, Len(s))>>
    ELSE IF Ch(s, k) = "\n"
         THEN <<SubSeq(s, start, k - 1)>> \o SplitFrom(s, k + 1, k + 1)
         ELSE SplitFrom(s, start, k + 1)

\* text.split('\n')
split(s) == SplitFrom(s, 1, 1)

----------------------------------------------------------------------------
(* clean_text                                                              *)

RECURSIVE RunEnd(_, _, _)
\* first index at or after k that holds no character of `set` (Len(s) + 1 when none)
RunEnd(s, k, set) ==
    IF k > Len(s) \/ Ch(s, k) \notin set THEN k ELSE RunEnd(s, k + 1, set)

RECURSIVE CollapseFrom(_, _)
CollapseFrom(s, k) ==
    IF k > Len(s) THEN ""
    ELSE IF Ch(s, k) \in SpaceChars
         THEN " " \o CollapseFrom(s, RunEnd(s, k, SpaceChars))
         ELSE Ch(s, k) \o CollapseFrom(s, k + 1)

\* re.sub(r'\s+', ' ', text)
CollapseWhitespace(s) == CollapseFrom(s, 1)

\* r'\s+\d+\s*$' matches s from index k on: a run of whitespace, a run of digits and
\* a run of whitespace that ends the text
PageNumberAt(s, k) ==
    LET a == RunEnd(s, k, SpaceChars)
        b == RunEnd(s, a, DigitChars)
    IN  a > k /\ b > a /\ RunEnd(s, b, SpaceChars) = Len(s) + 1

\* re.sub(r'\s+\d+\s*$', '', text): the leftmost match runs to the end of the text
StripPageNumber(s) ==
    LET starts == {k \in 1..Len(s) : PageNumberAt(s, k)}
    IN  IF starts = {} THEN s ELSE SubSeq(s, 1, SetMin(starts) - 1)

\* text.rstrip('.') removing one period only
RStripOneDot(s) == IF endswith(s, ".") THEN SubSeq(s, 1, Len(s) - 1) ELSE s

\* text.rstrip('.')
RStripDots(s) ==
    LET keep == {k \in 1..Len(s) : Ch(s, k) # "."}
    IN  IF keep = {} THEN "" ELSE SubSeq(s, 1, SetMax(keep))

\* clean_text without the removal of the trailing page number
clean_text_keeps_number(text) ==
    IF text = "" THEN ""
    ELSE RStripDots(CollapseWhitespace(strip(text)))

clean_text(text) ==
    IF text = "" THEN ""
    ELSE RStripDots(StripPageNumber(CollapseWhitespace(strip(text))))

----------------------------------------------------------------------------
(* Pieces of the regular expressions.  A pattern is matched with re.match, *)
(* so it is anchored at the start of the text; `$` matches at the end of   *)
(* the text and before a newline that ends it; `.` matches all but "\n".   *)

At(s, k, set) == k >= 1 /\ k <= Len(s) /\ Ch(s, k) \in set

\* `$` at index k
EndAt(s, k) == k = Len(s) + 1 \/ (k = Len(s) /\ Ch(s, k) = "\n")

\* `(.+)$` (least = 1) or `(.*)$` (least = 0) from index k on
RestToEnd(s, k, least) ==
    \E e \in (k - 1 + least)..Len(s) :
        /\ \A j \in k..e : Ch(s, j) # "\n"
        /\ EndAt(s, e + 1)

\* `\s+(.+)$` from index k on
SpaceThenRest(s, k) ==
    \E j \in k..Len(s) : AllIn(s, k, j, SpaceChars) /\ RestToEnd(s, j + 1, 1)

\* `[:\.\s]*(.*)$` from index k on
SeparatorsThenRest(s, k) ==
    \E j \in (k - 1)..Len(s) :
        AllIn(s, k, j, {":", "."} \cup SpaceChars) /\ RestToEnd(s, j + 1, 0)

\* the indexes at which `\d+` from index k on can end
DigitRunEnds(s, k) == {e \in k..Len(s) : AllIn(s, k, e, DigitChars)}

RECURSIVE DottedEnds(_, _)
\* the indexes at which n dot-separated integers, `\d+(\.\d+)...`, from index 1 can end
DottedEnds(s, n) ==
    IF n = 1 THEN DigitRunEnds(s, 1)
    ELSE UNION {IF At(s, e + 1, {"."}) THEN DigitRunEnds(s, e + 2) ELSE {} :
                    e \in DottedEnds(s, n - 1)}

\* `^(\d+\.)\s+(.+)$`
NumberedPattern(s) ==
    \E e \in DottedEnds(s, 1) : At(s, e + 1, {"."}) /\ SpaceThenRest(s, e + 2)

\* `^(\d+\.\d+)\s+(.+)$` (n = 2), `^(\d+\.\d+\.\d+)\s+(.+)$` (n = 3)
DottedPattern(s, n) == \E e \in DottedEnds(s, n) : SpaceThenRest(s, e + 1)

\* `^(Chapter\s+\d+)[:\.\s]*(.*)$` and the like, under re.IGNORECASE
KeywordNumberPattern(s, word) ==
    /\ Len(s) >= Len(word)
    /\ lower(SubSeq(s, 1, Len(word))) = lower(word)
    /\ \E a \in (Len(word) + 1)..Len(s) : \E b \in DigitRunEnds(s, a + 1) :
          AllIn(s, Len(word) + 1, a, SpaceChars) /\ SeparatorsThenRest(s, b + 1)

\* `^(Appendix\s+[A-Z])[:\.\s]*(.*)$`, under re.IGNORECASE
KeywordLetterPattern(s, word) ==
    /\ Len(s) >= Len(word)
    /\ lower(SubSeq(s, 1, Len(word))) = lower(word)
    /\ \E a \in (Len(word) + 1)..Len(s) :
          /\ AllIn(s, Len(word) + 1, a, SpaceChars)
          /\ At(s, a + 1, UpperChars \cup LowerChars)
          /\ SeparatorsThenRest(s, a + 2)

\* `^([IVX]+\.)\s+(.+)$`, under re.IGNORECASE
RomanPattern(s) ==
    \E e \in 1..Len(s) :
        /\ AllIn(s, 1, e, {"I", "V", "X", "i", "v", "x"})
        /\ At(s, e + 1, {"."})
        /\ SpaceThenRest(s, e + 2)

\* `^([A-Z]\.)\s+(.+)$`, under re.IGNORECASE
LetterPattern(s) ==
    At(s, 1, UpperChars \cup LowerChars) /\ At(s, 2, {"."}) /\ SpaceThenRest(s, 3)

\* re.match(self.heading_patterns[p - 1], text, re.IGNORECASE)
MatchesHeadingPattern(p, s) ==
    CASE p = 1 -> NumberedPattern(s)
      [] p = 2 -> DottedPattern(s, 2)
      [] p = 3 -> DottedPattern(s, 3)
      [] p = 4 -> KeywordNumberPattern(s, "Chapter")
      [] p = 5 -> KeywordNumberPattern(s, "CHAPTER")
      [] p = 6 -> KeywordNumberPattern(s, "Section")
      [] p = 7 -> KeywordNumberPattern(s, "SECTION")
      [] p = 8 -> KeywordLetterPattern(s, "Appendix")
      [] p = 9 -> KeywordLetterPattern(s, "APPENDIX")
      [] p = 10 -> RomanPattern(s)
      [] p = 11 -> LetterPattern(s)

\* len(self.heading_patterns)
NumHeadingPatterns == 11

\* re.match(r'^\d+\.$', text)
BareNumeral(s) == \E e \in DottedEnds(s, 1) : At(s, e + 1, {"."}) /\ EndAt(s, e + 2)

\* re.match(r'^\d+\.\d+$', text) (n = 2), re.match(r'^\d+\.\d+\.\d+$', text) (n = 3)
BareDotted(s, n) == \E e \in DottedEnds(s, n) : EndAt(s, e + 1)

----------------------------------------------------------------------------
(* classify_heading_level and is_likely_heading                            *)

\* font_size is None
NoFont == -1

\* self.font_thresholds
ThresholdH1 == 16

ThresholdH2 == 14

ThresholdH3 == 12

\* the branches taken once a heading pattern has matched, the numbering taken from the
\* start of the text instead of the whole text
LevelOfMatchByNumbering(text) ==
    IF NumberedPattern(text) THEN "H1"
    ELSE IF DottedPattern(text, 2) THEN "H2"
    ELSE IF DottedPattern(text, 3) THEN "H3"
    ELSE IF Contains(lower(text), "chapter") \/ Contains(lower(text), "appendix") THEN "H1"
    ELSE ""

\* the branches taken once a heading pattern has matched: the level returned, or ""
\* when no branch returns and the loop goes on to the next pattern
LevelOfMatch(text) ==
    IF BareNumeral(text) THEN "H1"
    ELSE IF BareDotted(text, 2) THEN "H2"
    ELSE IF BareDotted(text, 3) THEN "H3"
    ELSE IF Contains(lower(text), "chapter") \/ Contains(lower(text), "appendix") THEN "H1"
    ELSE ""

RECURSIVE PatternLoop(_, _)
\* the for loop over self.heading_patterns from pattern p on: the level it returns,
\* or "" when it ends without returning
PatternLoop(text, p) ==
    IF p > NumHeadingPatterns THEN ""
    ELSE IF MatchesHeadingPattern(p, text) /\ LevelOfMatch(text) # ""
         THEN LevelOfMatch(text)
         ELSE PatternLoop(text, p + 1)

\* the font-size branch: the level it returns, or "" when it falls through
LevelOfFont(font_size) ==
    IF font_size # NoFont /\ font_size # 0
    THEN IF font_size >= ThresholdH1 THEN "H1"
         ELSE IF font_size >= ThresholdH2 THEN "H2"
         ELSE IF font_size >= ThresholdH3 THEN "H3"
         ELSE ""
    ELSE ""

classify_heading_level(text0, font_size) ==
    LET text == strip(text0)
        byPattern == PatternLoop(text, 1)
        byFont == LevelOfFont(font_size)
    IN  IF byPattern # "" THEN byPattern
        ELSE IF byFont # "" THEN byFont
        ELSE IF istitle(text) THEN "H2" ELSE "H3"

\* re.match(r'^[\d\w]+[\.\)]\s+', text)
EnumeratorPrefix(s) ==
    \E e \in 1..Len(s) :
        AllIn(s, 1, e, WordChars) /\ At(s, e + 1, {".", ")"}) /\ At(s, e + 2, SpaceChars)

is_likely_heading(text) ==
    IF Len(text) < 3 \/ Len(text) > 150 THEN FALSE
    ELSE IF \E c \in {".", ",", ";", "!", "?"} : endswith(text, c) THEN FALSE
    ELSE IF isupper(text) /\ Len(text) < 60 THEN TRUE
    ELSE IF EnumeratorPrefix(text) THEN TRUE
    ELSE IF istitle(text) /\ 5 <= Len(text) /\ Len(text) <= 60 THEN TRUE
    ELSE FALSE

----------------------------------------------------------------------------
(* extract_title                                                           *)

\* None
None == <<>>

Some(x) == <<x>>

\* what PyPDF2 gives extract_title_from_metadata: the reader raises, the document
\* has no metadata, or metadata.get('/Title', '') is `value`
MetaRaises == [kind |-> "raises", value |-> ""]

MetaAbsent == [kind |-> "absent", value |-> ""]

MetaTitle(t) == [kind |-> "title", value |-> t]

\* no metadata has been read (or the reader is out of scope)
NotRead == [kind |-> "notread", value |-> ""]

\* extract_title_from_metadata: None, or the cleaned title
extract_title_from_metadata(m) ==
    IF m.kind = "title"
    THEN LET t == strip(m.value)
         IN  IF t # "" /\ Len(t) > 3 THEN Some(clean_text(t)) ELSE None
    ELSE None

\* Path(pdf_path).stem.replace('_', ' ').replace('-', ' ').title()
FilenameTitle(stem) == titlecase(replace(replace(stem, "_", " "), "-", " "))

\* re.match(r'^[\d\W]+$', line)
OnlyDigitsOrNonWord(s) ==
    /\ Len(s) >= 1
    /\ \A k \in 1..Len(s) : Ch(s, k) \in DigitChars \/ Ch(s, k) \notin WordChars

\* [line.strip() for line in text.split('\n') if line.strip()]
StrippedLines(text) ==
    LET raw == split(text)
    IN  [k \in 1..Len(raw) |-> strip(raw[k])]

NonEmpty(seq) == SelectSeq(seq, LAMBDA x : x # "")

\* the body of the first loop with a lower bound of 15 on the length
TitleCandidateLonger(line) ==
    /\ ~(Len(line) < 3 \/ OnlyDigitsOrNonWord(line))
    /\ ~(\E w \in {"page", "copyright", "www.", "http"} : Contains(lower(line), w))
    /\ 15 <= Len(line) /\ Len(line) <= 100 /\ ~endswith(line, ":")

\* the body of the first loop accepts the cleaned line
TitleCandidate(line) ==
    /\ ~(Len(line) < 3 \/ OnlyDigitsOrNonWord(line))
    /\ ~(\E w \in {"page", "copyright", "www.", "http"} : Contains(lower(line), w))
    /\ 10 <= Len(line) /\ Len(line) <= 100 /\ ~endswith(line, ":")

\* extract_title_from_content when the PDF collaborator does not raise
TitleFromPages(stem, pages) ==
    IF pages = <<>> THEN FilenameTitle(stem)
    ELSE IF pages[1] = None \/ pages[1] = Some("") THEN FilenameTitle(stem)
    ELSE LET ls == NonEmpty(StrippedLines(pages[1][1]))
             first == {k \in 1..Len(ls) : k <= 10 /\ TitleCandidate(clean_text(ls[k]))}
             second == {k \in 1..Len(ls) : Len(clean_text(ls[k])) >= 10}
         IN  IF first # {} THEN clean_text(ls[SetMin(first)])
             ELSE IF second # {} THEN clean_text(ls[SetMin(second)])
             ELSE FilenameTitle(stem)

\* extract_title_from_content: the except branch falls through to the filename
extract_title_from_content(stem, pages, raises) ==
    IF raises THEN FilenameTitle(stem) ELSE TitleFromPages(stem, pages)

----------------------------------------------------------------------------
(* extract_outline: the body of the loop over the lines of a page          *)

\* the duplicate test on the text alone
AlreadyListedByText(recs, line, page) ==
    \E k \in 1..Len(recs) : recs[k].text = line

\* any(h["text"] == line and h["page"] == page_num for h in outline["outline"])
AlreadyListed(recs, line, page) ==
    \E k \in 1..Len(recs) : recs[k].text = line /\ recs[k].page = page

\* the line handled with the record put at the front of the outline
ScanLineResultAtFront(recs, raw, page) ==
    LET line == clean_text(raw)
    IN  IF line = "" \/ ~is_likely_heading(line) THEN recs
        ELSE IF AlreadyListed(recs, line, page) THEN recs
        ELSE <<[level |-> classify_heading_level(line, NoFont),
                text |-> line, page |-> page]>> \o recs

\* the outline after the line `raw` of page `page` has been handled
ScanLineResult(recs, raw, page) ==
    LET line == clean_text(raw)
    IN  IF line = "" \/ ~is_likely_heading(line) THEN recs
        ELSE IF AlreadyListed(recs, line, page) THEN recs
        ELSE Append(recs, [level |-> classify_heading_level(line, NoFont),
                           text |-> line, page |-> page])

RECURSIVE ScanLines(_, _, _, _)
\* the outline after the lines ls[k], ls[k + 1], ... of page `page` have been handled
ScanLines(recs, ls, k, page) ==
    IF k > Len(ls) THEN recs
    ELSE ScanLines(ScanLineResult(recs, ls[k], page), ls, k + 1, page)

RECURSIVE ScanPages(_, _)
\* the outline after the first n pages of pgs have been scanned
ScanPages(pgs, n) ==
    IF n = 0 THEN <<>>
    ELSE IF pgs[n] = None \/ pgs[n] = Some("") THEN ScanPages(pgs, n - 1)
    ELSE ScanLines(ScanPages(pgs, n - 1), split(pgs[n][1]), 1, n - 1)

----------------------------------------------------------------------------
(* The inputs.                                                             *)

\* stems of the files of the input directory, in the order glob yields them
Stems == <<"q3_report", "my-doc", "notes">>

\* most pages of a document
MaxPages == 2

\* page.extract_text() of a page with a text layer
PageTexts ==
    { "1. Introduction\nBody text here.\n1. Introduction",
      "SUMMARY\nChapter 2: Scope\nSUMMARY 3",
      "Confidential\nAnnual Report on Operations\nPage 1",
      "Page 1\nwww.acme.example",
      "12\n\nA) Scope" }

\* page.extract_text(): None for a page without text layer
PageOptions == {None} \cup {Some(t) : t \in PageTexts}

\* a document is the sequence of what extract_text gives for its pages
Docs == UNION {[1..n -> PageOptions] : n \in 0..MaxPages}

\* the documents of a batch of several files
BatchDocs == {<<>>, <<None>>, <<Some("SUMMARY\nChapter 2: Scope\nSUMMARY 3")>>}

\* reader.metadata as extract_title_from_metadata finds it
MetadataOutcomes ==
    { MetaRaises, MetaAbsent, MetaTitle("  Annual Report 2024 "), MetaTitle(" Q3. "),
      MetaTitle(".....") }

\* content of an output file: absent, cut short by a failed json.dump, or the JSON
NoFile == [kind |-> "absent", title |-> "", outline |-> <<>>]

Truncated == [kind |-> "truncated", title |-> "", outline |-> <<>>]

Json(t, recs) == [kind |-> "json", title |-> t, outline |-> recs]

----------------------------------------------------------------------------
(* process_pdfs, with extract_outline inlined.                             *)

\* pdf_path.stem of the file the loop is at
stem == files[idx + 1]

\* the pages of the file the loop is at
pages == input[stem]

\* no call of extract_outline is in progress
CallIdle ==
    /\ meta_read = NotRead
    /\ title = ""
    /\ outline = <<>>
    /\ page_num = 0
    /\ lines = <<>>
    /\ i = 0
    /\ log = <<>>

FnIdle ==
    /\ fn_arg = ""
    /\ fn_font = NoFont
    /\ fn_res = ""
    /\ fn_res2 = ""
    /\ fn_pc = 0

\* a directory holding one PDF
Init ==
    /\ files = <<Stems[1]>>
    /\ input \in [{Stems[1]} -> Docs]
    /\ idx = 0
    /\ pc = "loop"
    /\ outputs = [f \in {Stems[1]} |-> NoFile]
    /\ CallIdle
    /\ FnIdle

\* a directory holding several PDFs
InitBatch ==
    /\ files = Stems
    /\ input \in [{Stems[k] : k \in 1..Len(Stems)} -> BatchDocs]
    /\ idx = 0
    /\ pc = "loop"
    /\ outputs = [f \in {Stems[k] : k \in 1..Len(Stems)} |-> NoFile]
    /\ CallIdle
    /\ FnIdle

\* for pdf_path in input_dir.glob("*.pdf"): the next file
NextFile ==
    /\ pc = "loop"
    /\ idx < Len(files)
    /\ pc' = "metadata"
    /\ UNCHANGED <<input, files, idx, meta_read, title, outline, page_num, lines, i,
                   log, outputs>>
    /\ UNCHANGED fnVars

\* the loop of process_pdfs ends
LoopEnd ==
    /\ pc = "loop"
    /\ idx = Len(files)
    /\ pc' = "done"
    /\ UNCHANGED <<input, files, idx, meta_read, title, outline, page_num, lines, i,
                   log, outputs>>
    /\ UNCHANGED fnVars

\* extract_title: the metadata title if it is truthy
ExtractTitleFromMetadata ==
    /\ pc = "metadata"
    /\ \E m \in MetadataOutcomes :
          LET t == extract_title_from_metadata(m)
          IN  /\ meta_read' = m
              /\ IF t # None /\ t # Some("")
                 THEN title' = t[1] /\ pc' = "open"
                 ELSE title' = title /\ pc' = "content"
    /\ UNCHANGED <<input, files, idx, outline, page_num, lines, i, log, outputs>>
    /\ UNCHANGED fnVars

\* extract_title: ... or the title found in the content
ExtractTitleFromContent ==
    /\ pc = "content"
    /\ \E raises \in BOOLEAN :
          /\ title' = extract_title_from_content(stem, pages, raises)
          /\ log' = IF raises THEN Append(log, "Title extraction failed") ELSE log
    /\ pc' = "open"
    /\ UNCHANGED <<input, files, idx, meta_read, outline, page_num, lines, i, outputs>>
    /\ UNCHANGED fnVars

\* with pdfplumber.open(pdf_path) as pdf: it opens the file, or raises
OpenPdf ==
    /\ pc = "open"
    /\ meta_read' = NotRead
    /\ \/ /\ pc' = "page"
          /\ log' = log
       \/ /\ pc' = "return"
          /\ log' = Append(log, "Error parsing PDF")
    /\ UNCHANGED <<input, files, idx, title, outline, page_num, lines, i, outputs>>
    /\ UNCHANGED fnVars

\* ExtractText with an except branch that empties the outline
ExtractTextDropsOutline ==
    /\ pc = "page"
    /\ page_num < Len(pages)
    /\ \/ /\ pc' = "return"
          /\ log' = Append(log, "Error parsing PDF")
          /\ outline' = <<>>
          /\ UNCHANGED <<page_num, lines>>
       \/ /\ pages[page_num + 1] = None \/ pages[page_num + 1] = Some("")
          /\ page_num' = page_num + 1
          /\ UNCHANGED <<pc, log, lines, outline>>
       \/ /\ pages[page_num + 1] # None /\ pages[page_num + 1] # Some("")
          /\ lines' = split(pages[page_num + 1][1])
          /\ pc' = "line"
          /\ UNCHANGED <<page_num, log, outline>>
    /\ UNCHANGED <<input, files, idx, meta_read, title, i, outputs>>
    /\ UNCHANGED fnVars

\* text = page.extract_text() of the next page: it raises, gives no text, or the text
ExtractText ==
    /\ pc = "page"
    /\ page_num < Len(pages)
    /\ \/ /\ pc' = "return"
          /\ log' = Append(log, "Error parsing PDF")
          /\ UNCHANGED <<page_num, lines>>
       \/ /\ pages[page_num + 1] = None \/ pages[page_num + 1] = Some("")
          /\ page_num' = page_num + 1
          /\ UNCHANGED <<pc, log, lines>>
       \/ /\ pages[page_num + 1] # None /\ pages[page_num + 1] # Some("")
          /\ lines' = split(pages[page_num + 1][1])
          /\ pc' = "line"
          /\ UNCHANGED <<page_num, log>>
    /\ UNCHANGED <<input, files, idx, meta_read, title, outline, i, outputs>>
    /\ UNCHANGED fnVars

\* the loop over the pages ends and the with block closes the PDF, or raises doing so
EndOfPages ==
    /\ pc = "page"
    /\ page_num = Len(pages)
    /\ pc' = "return"
    /\ \/ log' = log
       \/ log' = Append(log, "Error parsing PDF")
    /\ UNCHANGED <<input, files, idx, meta_read, title, outline, page_num, lines, i,
                   outputs>>
    /\ UNCHANGED fnVars

\* one pass of the loop over the lines of the page
ScanLine ==
    /\ pc = "line"
    /\ i < Len(lines)
    /\ outline' = ScanLineResult(outline, lines[i + 1], page_num)
    /\ i' = i + 1
    /\ UNCHANGED <<input, files, idx, pc, meta_read, title, page_num, lines, log, outputs>>
    /\ UNCHANGED fnVars

\* the loop over the lines ends: on to the next page
EndOfLines ==
    /\ pc = "line"
    /\ i = Len(lines)
    /\ page_num' = page_num + 1
    /\ lines' = <<>>
    /\ i' = 0
    /\ pc' = "page"
    /\ UNCHANGED <<input, files, idx, meta_read, title, outline, log, outputs>>
    /\ UNCHANGED fnVars

\* return outline
ReturnOutline ==
    /\ pc = "return"
    /\ pc' = "write"
    /\ UNCHANGED <<input, files, idx, meta_read, title, outline, page_num, lines, i,
                   log, outputs>>
    /\ UNCHANGED fnVars

\* the next pass of the loop of process_pdfs starts with fresh locals
EndOfPass ==
    /\ idx' = idx + 1
    /\ pc' = "loop"
    /\ meta_read' = NotRead
    /\ title' = ""
    /\ outline' = <<>>
    /\ page_num' = 0
    /\ lines' = <<>>
    /\ i' = 0
    /\ log' = <<>>

\* open(<stem>.json, "w") and json.dump(result): done, or open raises, or dump raises
WriteResult ==
    /\ pc = "write"
    /\ \/ /\ outputs' = [outputs EXCEPT ![stem] = Json(title, outline)]
          /\ EndOfPass
       \/ /\ pc' = "except"
          /\ log' = Append(log, "Failed on")
          /\ UNCHANGED <<outputs, idx, meta_read, title, outline, page_num, lines, i>>
       \/ /\ outputs' = [outputs EXCEPT ![stem] = Truncated]
          /\ pc' = "except"
          /\ log' = Append(log, "Failed on")
          /\ UNCHANGED <<idx, meta_read, title, outline, page_num, lines, i>>
    /\ UNCHANGED <<input, files>>
    /\ UNCHANGED fnVars

\* the except branch of process_pdfs writes the placeholder: done, or open raises, or
\* dump raises, and nothing catches what is raised here
WritePlaceholder ==
    /\ pc = "except"
    /\ \/ /\ outputs' = [outputs EXCEPT ![stem] = Json(stem, <<>>)]
          /\ EndOfPass
       \/ /\ pc' = "crashed"
          /\ UNCHANGED <<outputs, idx, meta_read, title, outline, page_num, lines, i, log>>
       \/ /\ outputs' = [outputs EXCEPT ![stem] = Truncated]
          /\ pc' = "crashed"
          /\ UNCHANGED <<idx, meta_read, title, outline, page_num, lines, i, log>>
    /\ UNCHANGED <<input, files>>
    /\ UNCHANGED fnVars

Next ==
    \/ NextFile
    \/ LoopEnd
    \/ ExtractTitleFromMetadata
    \/ ExtractTitleFromContent
    \/ OpenPdf
    \/ ExtractText
    \/ EndOfPages
    \/ ScanLine
    \/ EndOfLines
    \/ ReturnOutline
    \/ WriteResult
    \/ WritePlaceholder

Spec == Init /\ [][Next]_vars

SpecBatch == InitBatch /\ [][Next]_vars

----------------------------------------------------------------------------
(* clean_text and classify_heading_level applied to bounded inputs.        *)

\* longest enumerated argument
MaxLen == 5

RECURSIVE Strings(_, _)
\* the strings over `alphabet` of length at most n
Strings(alphabet, n) ==
    IF n = 0 THEN {""}
    ELSE LET shorter == Strings(alphabet, n - 1)
         IN  shorter \cup {t \o c : t \in shorter, c \in alphabet}

CleanInputs ==
    Strings({"a", "1", ".", " ", "\n"}, MaxLen)
        \cup {"  Annual Report 2024 ", "1. Introduction", "a\t 12 \n", "Page 1"}

ClassifyInputs ==
    Strings({"a", "A", "1", ".", " "}, MaxLen)
        \cup {"1. Introduction", "Chapter 2: Scope", "1.1 Scope", "1.1.1 Chapter",
              "IV. Results", "A. Scope", "Appendix B", "Section 4 - Chapter", "3.2.1"}

\* font sizes around the thresholds
FontSizes == {NoFont, 0, 11, 12, 14, 16}

\* process_pdfs is not running
MainIdle ==
    /\ files = <<>>
    /\ input = <<>>
    /\ idx = 0
    /\ pc = "done"
    /\ outputs = <<>>
    /\ CallIdle

InitClean ==
    /\ MainIdle
    /\ fn_arg \in CleanInputs
    /\ fn_font = NoFont
    /\ fn_res = ""
    /\ fn_res2 = ""
    /\ fn_pc = 0

\* clean_text(s)
CleanOnce ==
    /\ fn_pc = 0
    /\ fn_res' = clean_text(fn_arg)
    /\ fn_pc' = 1
    /\ UNCHANGED <<fn_arg, fn_font, fn_res2>>
    /\ UNCHANGED mainVars

\* clean_text(clean_text(s))
CleanTwice ==
    /\ fn_pc = 1
    /\ fn_res2' = clean_text(fn_res)
    /\ fn_pc' = 2
    /\ UNCHANGED <<fn_arg, fn_font, fn_res>>
    /\ UNCHANGED mainVars

NextClean ==
    \/ CleanOnce
    \/ CleanTwice

SpecClean == InitClean /\ [][NextClean]_vars

InitClassify ==
    /\ MainIdle
    /\ fn_arg \in ClassifyInputs
    /\ fn_font \in FontSizes
    /\ fn_res = ""
    /\ fn_res2 = ""
    /\ fn_pc = 0

\* classify_heading_level(text, font_size=font_size)
Classify ==
    /\ fn_pc = 0
    /\ fn_res' = classify_heading_level(fn_arg, fn_font)
    /\ fn_pc' = 1
    /\ UNCHANGED <<fn_arg, fn_font, fn_res2>>
    /\ UNCHANGED mainVars

NextClassify == Classify

SpecClassify == InitClassify /\ [][NextClassify]_vars

----------------------------------------------------------------------------
(* Properties.                                                             *)

\* extract_outline caught an exception of the PDF collaborator
ParseFailed == \E k \in 1..Len(log) : log[k] = "Error parsing PDF"

\* the except branch of process_pdfs was entered
WriteFailed == \E k \in 1..Len(log) : log[k] = "Failed on"

\* the title extraction caught an exception of the PDF collaborator
TitleFailed == \E k \in 1..Len(log) : log[k] = "Title extraction failed"

HasText(pg) == pg # None /\ pg # Some("")

\* the positions of the records of `recs` with this text and page
RecordsOf(recs, text, page) ==
    {k \in 1..Len(recs) : recs[k].text = text /\ recs[k].page = page}

\* the cleaned lines of a page that are headings
HeadingsOfPage(pg) ==
    LET ls == split(pg[1])
        cleaned == [k \in 1..Len(ls) |-> clean_text(ls[k])]
    IN  {h \in {cleaned[k] : k \in 1..Len(ls)} : h # "" /\ is_likely_heading(h)}

\* C1: the outline never holds two records with the same (text, page); every heading
\* line of a page that has been scanned has exactly one record for its (text, page),
\* however often it occurs on that page and on whichever other pages it occurs too.
C1_UniqueTextPage ==
    /\ \A a, b \in 1..Len(outline) :
          (outline[a].text = outline[b].text /\ outline[a].page = outline[b].page)
              => a = b
    /\ \A p \in 1..page_num :
          HasText(pages[p]) =>
              \A h \in HeadingsOfPage(pages[p]) :
                  Cardinality(RecordsOf(outline, h, p - 1)) = 1

\* C1 witness: both pages hold "1. Introduction" twice, and the outline returned has
\* one record of it for page 0 and one for page 1.
C1_Witness ==
    /\ pc = "return"
    /\ ~ParseFailed
    /\ pages = << Some("1. Introduction\nBody text here.\n1. Introduction"),
                  Some("1. Introduction\nBody text here.\n1. Introduction") >>
    /\ Len(outline) = 2
    /\ outline[1].text = "1. Introduction" /\ outline[1].page = 0
    /\ outline[2].text = "1. Introduction" /\ outline[2].page = 1

\* the titles extract_title can resolve for a document
ResolvedTitles(st, pgs) ==
    {extract_title_from_metadata(m)[1] :
        m \in {x \in MetadataOutcomes : extract_title_from_metadata(x) \notin {None, Some("")}}}
    \cup {extract_title_from_content(st, pgs, r) : r \in BOOLEAN}

\* C2 as stated: after a failure of the PDF collaborator in extract_outline (on open or
\* on any page), the call returns the resolved title and an empty outline.
C2_FailureGivesEmptyOutline ==
    (ParseFailed /\ pc \in {"return", "write"}) =>
        /\ title \in ResolvedTitles(stem, pages)
        /\ outline = <<>>

\* C2 amended: after a failure of the PDF collaborator in extract_outline the failure is
\* not propagated (the except branch of process_pdfs is entered only by a failed write),
\* and the call returns the resolved title and the records accepted from the pages
\* scanned before the failure: none when open failed.
C2_FailureKeepsEarlierRecords ==
    /\ (ParseFailed /\ ~WriteFailed) => pc \in {"return", "write"}
    /\ (ParseFailed /\ pc \in {"return", "write"}) =>
          /\ title \in ResolvedTitles(stem, pages)
          /\ outline = ScanPages(pages, page_num)

\* C2 witness: extract_text raised on the second page after a heading of the first page
\* was accepted, and the call has returned.
C2_Witness ==
    /\ pc = "write"
    /\ ParseFailed
    /\ Len(pages) = 2
    /\ page_num = 1
    /\ outline # <<>>

\* C3: the batch never ends by an exception, and when the loop has ended every input
\* file has an output file holding a JSON document.
C3_BatchCompletes ==
    /\ pc # "crashed"
    /\ pc = "done" => \A k \in 1..Len(files) : outputs[files[k]].kind = "json"

\* the first line of the page of record r whose cleaned text is the text of r
FirstLine(r) ==
    LET ls == split(pages[r.page + 1][1])
    IN  SetMin({k \in 1..Len(ls) : clean_text(ls[k]) = r.text})

\* the records are in scan order: pages from 0 on and never decreasing, records of one
\* page in the order of the first lines that hold them, none from a page without text;
\* and a scan that ends without failure has been through every page
ScanOrder ==
    /\ \A a \in 1..Len(outline) :
          /\ outline[a].page >= 0
          /\ outline[a].page <= page_num
          /\ HasText(pages[outline[a].page + 1])
    /\ \A a, b \in 1..Len(outline) :
          a < b =>
              /\ outline[a].page <= outline[b].page
              /\ outline[a].page = outline[b].page
                    => FirstLine(outline[a]) < FirstLine(outline[b])
    /\ (pc = "return" /\ ~ParseFailed) =>
          /\ page_num = Len(pages)
          /\ outline = ScanPages(pages, Len(pages))

\* within a call of extract_outline a step leaves the outline alone or appends one record
AppendOnly ==
    idx' = idx =>
        \/ outline' = outline
        \/ /\ Len(outline') = Len(outline) + 1
           /\ SubSeq(outline', 1, Len(outline)) = outline
           /\ outline'[Len(outline')].page = page_num

\* C4: the outline lists the headings in page/line scan order: records are only ever
\* appended, pages are non-decreasing from 0, records of one page follow the order of
\* their first lines, and a page without text gives no record and does not end the scan.
C4_ScanOrder == []ScanOrder /\ [][AppendOnly]_vars

\* C4 witness: the first page has no text; the scan went on and returned the two
\* headings of the second page, "SUMMARY" (lines 0 and 2) before "Chapter 2: Scope".
C4_Witness ==
    /\ pc = "return"
    /\ ~ParseFailed
    /\ pages = <<None, Some("SUMMARY\nChapter 2: Scope\nSUMMARY 3")>>
    /\ Len(outline) = 2
    /\ outline[1].text = "SUMMARY" /\ outline[1].page = 1
    /\ outline[2].text = "Chapter 2: Scope" /\ outline[2].page = 1

\* C5: without font size, a text of the shape ^\d+\.$ is classified H1, one of the
\* shape ^\d+\.\d+$ H2 and one of the shape ^\d+\.\d+\.\d+$ H3.
C5_BareNumeralLevels ==
    (fn_pc = 1 /\ fn_font = NoFont) =>
        /\ BareNumeral(fn_arg) => fn_res = "H1"
        /\ BareDotted(fn_arg, 2) => fn_res = "H2"
        /\ BareDotted(fn_arg, 3) => fn_res = "H3"

\* C6: when page 0 holds the line "1. Introduction", the outline returned holds the
\* record {level: H1, text: "1. Introduction", page: 0}.
C6_IntroductionIsH1 ==
    ( /\ pc = "return"
      /\ ~ParseFailed
      /\ pages # <<>>
      /\ HasText(pages[1])
      /\ \E k \in 1..Len(split(pages[1][1])) : split(pages[1][1])[k] = "1. Introduction" )
    => \E k \in 1..Len(outline) :
          outline[k] = [level |-> "H1", text |-> "1. Introduction", page |-> 0]

\* the metadata title "  Annual Report 2024 " has been read for the current file
ReadAnnualReport == pc = "open" /\ meta_read = MetaTitle("  Annual Report 2024 ")

\* C7 as stated: with the metadata title "  Annual Report 2024 ", extract_title
\* returns "Annual Report 2024".
C7_TitleKeepsYear == ReadAnnualReport => title = "Annual Report 2024"

\* C7 amended: with the metadata title "  Annual Report 2024 ", extract_title takes the
\* metadata path and returns "Annual Report": clean_text removes the trailing
\* whitespace-separated digit group as well as the surrounding whitespace.
C7_TitleLosesYear == ReadAnnualReport => (title = "Annual Report" /\ ~TitleFailed)

\* C7 witness: that metadata title has been read and the title resolved from it.
C7_Witness == ReadAnnualReport /\ title = "Annual Report"

\* the title of the current file has been resolved from the content of a first page
\* holding the three lines "Confidential", "Annual Report on Operations", "Page 1"
ResolvedFromConfidentialPage ==
    /\ pc = "open"
    /\ extract_title_from_metadata(meta_read) \in {None, Some("")}
    /\ ~TitleFailed
    /\ pages # <<>>
    /\ pages[1] = Some("Confidential\nAnnual Report on Operations\nPage 1")

\* C8 as stated: for that document the content heuristic returns
\* "Annual Report on Operations".
C8_TitleSkipsConfidential ==
    ResolvedFromConfidentialPage => title = "Annual Report on Operations"

\* C8 amended: for that document the content heuristic returns "Confidential", the
\* first of the first 10 lines that survives the skip rules, has cleaned length in
\* [10, 100] (it has 12 characters) and does not end with ":".
C8_TitleIsConfidential ==
    ResolvedFromConfidentialPage =>
        /\ title = "Confidential"
        /\ TitleCandidate("Confidential")
        /\ Len("Confidential") = 12

\* C8 witness: the title of such a document has been resolved from its content.
C8_Witness == ResolvedFromConfidentialPage /\ title = "Confidential"

\* a whitespace character of s is directly followed by a digit or a period
SpaceBeforeDigitOrDot(s) ==
    \E k \in 1..(Len(s) - 1) :
        Ch(s, k) \in SpaceChars /\ Ch(s, k + 1) \in DigitChars \cup {"."}

ContainsChapterOrAppendix(text) ==
    Contains(lower(text), "chapter") \/ Contains(lower(text), "appendix")

\* C10: in an outline built by extract_outline a record has level H1 only if its text
\* contains "chapter" or "appendix" and matches a heading pattern; no record has a
\* bare-numeral text; a record whose text contains neither word has level H2 when its
\* text is title-case and H3 otherwise.
C10_LevelsOfBuiltOutline ==
    \A k \in 1..Len(outline) :
        LET r == outline[k]
        IN  /\ r.level = "H1" =>
                  /\ ContainsChapterOrAppendix(r.text)
                  /\ \E p \in 1..NumHeadingPatterns : MatchesHeadingPattern(p, strip(r.text))
            /\ ~(BareNumeral(r.text) \/ BareDotted(r.text, 2) \/ BareDotted(r.text, 3))
            /\ ~ContainsChapterOrAppendix(r.text) =>
                  r.level = IF istitle(r.text) THEN "H2" ELSE "H3"

\* C10 witness: the outline returned holds the numbered heading "1. Introduction" with
\* level H2, the upper-case heading "SUMMARY" with level H3 and "Chapter 2: Scope" with
\* level H1.
C10_Witness ==
    /\ pc = "return"
    /\ \E a, b, c \in 1..Len(outline) :
          /\ outline[a].text = "1. Introduction" /\ outline[a].level = "H2"
          /\ outline[b].text = "SUMMARY" /\ outline[b].level = "H3"
          /\ outline[c].text = "Chapter 2: Scope" /\ outline[c].level = "H1"

====
